---- MODULE Spec2Model ----
(***************************************************************************)
(* State-machine model of the e-book store API (src/main.py): the tables   *)
(* of src/models/models.py, the request schemas of src/schemas/schemas.py  *)
(* and the handlers of src/main.py.                                        *)
(*                                                                         *)
(* A request is served by a worker.  Every handler is split at its         *)
(* database statements: a SELECT reads the committed tables, and the       *)
(* session (autoflush=False, src/database/database.py:19) writes its       *)
(* pending changes when db.commit() is called.  Under Spec the statements  *)
(* of two workers interleave (several server processes on one database),  *)
(* and so they do under SpecAccounts and SpecFavorites.  Under SpecCart,   *)
(* SpecCheckout, SpecHistory, SpecCatalog, SpecShop, SpecCartView,         *)
(* SpecRecords and SpecPublic there is one worker, which serves a request  *)
(* to its end                                                              *)
(* before the next one starts (one event loop: the handlers are "async     *)
(* def" without an await).  Each specification takes the requests of one   *)
(* part of the API.                                                        *)
(*                                                                         *)
(* Primary keys come from a sequence per table and are not given twice, so *)
(* that an id names one row for the whole run.                             *)
(*                                                                         *)
(* Money is counted in thousandths of a currency unit, so that round(x, 2) *)
(* is the rounding to a multiple of 10.                                    *)
(***************************************************************************)
EXTENDS Integers, Sequences, FiniteSets, TLC

\* ------------------------------------------------------------- bounds
\* Largest quantity a cart row reaches (quantities are unbounded integers).
MaxQty == 2
\* Number of cart rows ever inserted (ids come from the table's id sequence).
MaxCartId == 2
\* Number of orders ever created.
MaxOrders == 2
\* Number of books ever created.
MaxBookId == 3
\* Number of users ever registered.
MaxUserId == 4
\* Number of favorites ever inserted.
MaxFavId == 2

\* Quantities a client sends (0 is refused by the schemas).
QtyInputs == {0, 1, 2}
\* Prices an administrator sends, in thousandths; they are even, so that no
\* total is halfway between two multiples of 10 (Python rounds the binary
\* float, and which way such a tie goes depends on its representation).
PriceInputs == {12, 24}
\* The same with a price that BookBase refuses.
CatalogPriceInputs == PriceInputs \cup {0}
\* Book ids and order ids a client asks for.
BookIdInputs == {1, 2}
OrderIdInputs == 1..MaxOrders
\* Usernames and e-mail addresses a client sends, and the ids of the users an
\* administrator asks for.
NameInputs == {1, 2, 3}
EmailInputs == {1, 2, 3}
UserIdInputs == {1, 2, 3}

\* The NULL of a foreign-key column (ids start at 1).
NULL == 0

VARIABLES
  users,        \* table users: id -> [username, email, is_admin]
  user_seq,     \* last id given to a user
  books,        \* table books: id -> price
  book_seq,     \* last id given to a book
  cart_items,   \* table cart_items: set of [id, user_id, book_id, quantity]
  cart_seq,     \* last id given to a cart row
  orders,       \* table orders: id -> [user_id, total_amount, status]
  order_items,  \* table order_items: id -> [order_id, book_id, quantity, price_at_purchase]
  from_cart,    \* history: from_cart[i] is the id of the cart row order_items[i] was built from
  favorites,    \* table favorites: set of [id, user_id, book_id]
  fav_seq,      \* last id given to a favorite
  req           \* per worker: the request it serves, its position and its session's objects

db == <<users, user_seq, books, book_seq, cart_items, cart_seq, orders, order_items, from_cart,
       favorites, fav_seq>>
vars == <<users, user_seq, books, book_seq, cart_items, cart_seq, orders, order_items, from_cart,
         favorites, fav_seq, req>>

\* ------------------------------------------------------------ helpers
RECURSIVE SumSeq(_)
SumSeq(s) == IF s = <<>> THEN 0 ELSE Head(s) + SumSeq(Tail(s))

RECURSIVE SortById(_)
\* The rows of a query in the order of their primary key.
SortById(S) ==
  IF S = {} THEN <<>>
  ELSE LET m == CHOOSE x \in S : \A y \in S : x.id <= y.id
       IN <<m>> \o SortById(S \ {m})

\* round(x, 2) for x >= 0 counted in thousandths.
Round2(x) == ((x + 5) \div 10) * 10

\* ------------------------------------------------------------ schemas
\* A faulty schema: any quantity is accepted.
AnyQuantity(q) == TRUE

\* CartItemBase.quantity: Field(..., gt=0)
CartItemCreate(q) == q > 0
\* CartItemUpdate.quantity: Field(..., gt=0)
CartItemUpdate(q) == q > 0
\* BookBase.price: Field(..., gt=0)
BookCreate(p) == p > 0
\* BookUpdate.price: Optional[float] = None, which drops the gt=0 of BookBase
BookUpdate(p) == TRUE

\* ----------------------------------------------------------- requests
NoReq ==
  [op |-> "none", pc |-> "idle", user |-> 0, arg |-> 0, qty |-> 0,
   flag |-> FALSE, rowid |-> 0, rowqty |-> 0, cart |-> <<>>, order |-> 0,
   status |-> 0, body |-> {}]

\* A request that has just arrived.
New(op, u, arg, qty) ==
  [NoReq EXCEPT !.op = op, !.pc = "run", !.user = u, !.arg = arg, !.qty = qty]

\* The request q answered with a status code and a body; its session is closed.
Done(q, st, body) ==
  [NoReq EXCEPT !.op = q.op, !.pc = "done", !.user = q.user, !.arg = q.arg,
                !.qty = q.qty, !.flag = q.flag, !.order = q.order, !.status = st,
                !.body = body]

\* A worker takes a new request when it serves none.
Free(r) == req[r].pc \in {"idle", "done"}

\* get_current_user: the token names an existing user.
get_current_user(u) == u \in DOMAIN users

\* A faulty dependency: the admin flag is not looked at.
AnyUserIsAdmin(u) == TRUE

\* get_current_admin_user: the caller has the admin flag.
get_current_admin_user(u) == users[u].is_admin

\* ------------------------------------------------------------- tables
CartItemsOf(u) == {c \in cart_items : c.user_id = u}

\* db.query(CartItem).filter(user_id == u, book_id == b)
CartItemsFor(u, b) == {c \in cart_items : c.user_id = u /\ c.book_id = b}

\* .first() of a query: the row with the lowest primary key, NULL when none.
First(S) == IF S = {} THEN NULL ELSE SortById(S)[1].id

CartRow(id) == CHOOSE c \in cart_items : c.id = id

HasCartRow(id) == \E c \in cart_items : c.id = id

\* ---------------------------------------------------------------- cart
\* A faulty merge: the quantity sent replaces the quantity held.
MergedQuantityReplace(old, q) == q

\* db_cart_item.quantity += cart_item_data.quantity
MergedQuantity(old, q) == old + q

\* POST /cart/items, up to the two SELECTs: the book, and the caller's row of it.
add_item_to_cart(r, u, b, q) ==
  /\ Free(r)
  /\ get_current_user(u)
  /\ LET n == New("add_item_to_cart", u, b, q)
         row == First(CartItemsFor(u, b))
     IN  IF ~CartItemCreate(q) THEN req' = [req EXCEPT ![r] = Done(n, 422, {})]
         ELSE IF b \notin DOMAIN books THEN req' = [req EXCEPT ![r] = Done(n, 404, {})]
         ELSE IF row = NULL
           THEN /\ cart_seq + Cardinality({w \in DOMAIN req : req[w].pc = "add_commit" /\ req[w].rowid = NULL}) < MaxCartId
                /\ req' = [req EXCEPT ![r] = [n EXCEPT !.pc = "add_commit"]]
           ELSE /\ MergedQuantity(CartRow(row).quantity, q) <= MaxQty
                /\ req' = [req EXCEPT ![r] = [n EXCEPT !.pc = "add_commit", !.rowid = row,
                                                !.rowqty = MergedQuantity(CartRow(row).quantity, q)]]
  /\ UNCHANGED db

\* POST /cart/items, db.commit(): the UPDATE of the row that was read, or the
\* INSERT of a new one.  An UPDATE that matches no row raises StaleDataError.
add_item_to_cart_commit(r) ==
  /\ req[r].pc = "add_commit"
  /\ LET q == req[r] IN
       IF q.rowid # NULL
       THEN IF HasCartRow(q.rowid)
            THEN /\ cart_items' = (cart_items \ {CartRow(q.rowid)})
                                  \cup {[CartRow(q.rowid) EXCEPT !.quantity = q.rowqty]}
                 /\ req' = [req EXCEPT ![r] = Done(q, 201, {q.rowid})]
                 /\ UNCHANGED cart_seq
            ELSE /\ req' = [req EXCEPT ![r] = Done(q, 500, {})]
                 /\ UNCHANGED <<cart_items, cart_seq>>
       ELSE /\ cart_seq' = cart_seq + 1
            /\ cart_items' = cart_items \cup
                 {[id |-> cart_seq + 1, user_id |-> q.user, book_id |-> q.arg, quantity |-> q.qty]}
            /\ req' = [req EXCEPT ![r] = Done(q, 201, {cart_seq + 1})]
  /\ UNCHANGED <<users, books, book_seq, orders, order_items, from_cart, user_seq, favorites, fav_seq>>

\* PATCH /cart/items/{book_id}, up to the SELECT of the caller's row.
update_cart_item_quantity(r, u, b, q) ==
  /\ Free(r)
  /\ get_current_user(u)
  /\ LET n == New("update_cart_item_quantity", u, b, q)
         row == First(CartItemsFor(u, b))
     IN  req' = [req EXCEPT ![r] =
           IF ~CartItemUpdate(q) THEN Done(n, 422, {})
           ELSE IF row = NULL THEN Done(n, 404, {})
           ELSE [n EXCEPT !.pc = "update_commit", !.rowid = row]]
  /\ UNCHANGED db

\* PATCH /cart/items/{book_id}, from the test of the quantity to db.commit().
update_cart_item_quantity_commit(r) ==
  /\ req[r].pc = "update_commit"
  /\ LET q == req[r] IN
       IF q.qty <= 0
       THEN /\ cart_items' = {c \in cart_items : c.id # q.rowid}
            /\ req' = [req EXCEPT ![r] = Done(q, 200, {})]
       ELSE IF HasCartRow(q.rowid)
            THEN /\ cart_items' = (cart_items \ {CartRow(q.rowid)})
                                  \cup {[CartRow(q.rowid) EXCEPT !.quantity = q.qty]}
                 /\ req' = [req EXCEPT ![r] = Done(q, 200, {q.rowid})]
            ELSE /\ req' = [req EXCEPT ![r] = Done(q, 500, {})]
                 /\ UNCHANGED cart_items
  /\ UNCHANGED <<users, books, book_seq, cart_seq, orders, order_items, from_cart, user_seq, favorites, fav_seq>>

\* DELETE /cart/items/{book_id}, up to the SELECT of the caller's row.
remove_item_from_cart(r, u, b) ==
  /\ Free(r)
  /\ get_current_user(u)
  /\ LET n == New("remove_item_from_cart", u, b, 0)
         row == First(CartItemsFor(u, b))
     IN  req' = [req EXCEPT ![r] =
           IF row = NULL THEN Done(n, 404, {})
           ELSE [n EXCEPT !.pc = "remove_commit", !.rowid = row]]
  /\ UNCHANGED db

\* DELETE /cart/items/{book_id}, db.delete and db.commit().
remove_item_from_cart_commit(r) ==
  /\ req[r].pc = "remove_commit"
  /\ cart_items' = {c \in cart_items : c.id # req[r].rowid}
  /\ req' = [req EXCEPT ![r] = Done(req[r], 204, {})]
  /\ UNCHANGED <<users, books, book_seq, cart_seq, orders, order_items, from_cart, user_seq, favorites, fav_seq>>

\* DELETE /cart/: the bulk DELETE of the caller's rows and its commit.
clear_cart(r, u) ==
  /\ Free(r)
  /\ get_current_user(u)
  /\ cart_items' = {c \in cart_items : c.user_id # u}
  /\ req' = [req EXCEPT ![r] = Done(New("clear_cart", u, 0, 0), 204, {})]
  /\ UNCHANGED <<users, books, book_seq, cart_seq, orders, order_items, from_cart, user_seq, favorites, fav_seq>>

\* ------------------------------------------------------------ checkout
\* joinedload(CartItem.book): a cart row with the price of its book, NULL
\* when the row's book_id matches no book.
Joined(c) ==
  [id |-> c.id, book_id |-> c.book_id, quantity |-> c.quantity,
   price |-> IF c.book_id \in DOMAIN books THEN books[c.book_id] ELSE NULL,
   book |-> c.book_id \in DOMAIN books]

\* A faulty test: the empty cart is not refused.
EmptyCartNever(cart) == FALSE

\* if not cart_items
EmptyCart(cart) == cart = <<>>

\* A faulty test: a row without a book is not refused.
BookMissingNever(item) == FALSE

\* if not item.book
BookMissing(item) == ~item.book

\* A faulty snapshot: the price of the line instead of the price of the book.
ItemPriceTimesQuantity(item) == item.quantity * item.price

\* item_price = item.book.price
ItemPrice(item) == item.price

\* GET /cart/: the caller's rows whose book is found, with the sums of their
\* quantities and of quantity * price, rounded to 2 decimals.
get_cart_content(r, u) ==
  /\ Free(r)
  /\ get_current_user(u)
  /\ LET cart == [i \in 1..Cardinality(CartItemsOf(u)) |-> Joined(SortById(CartItemsOf(u))[i])]
         shown == {i \in 1..Len(cart) : cart[i].book}
     IN  req' = [req EXCEPT ![r] = Done(New("get_cart_content", u, 0, 0), 200,
           {[items |-> {cart[i].id : i \in shown},
             total_amount |-> Round2(SumSeq([i \in 1..Len(cart) |->
                                IF i \in shown THEN cart[i].quantity * cart[i].price ELSE 0])),
             total_quantity |-> SumSeq([i \in 1..Len(cart) |->
                                IF i \in shown THEN cart[i].quantity ELSE 0])]})]
  /\ UNCHANGED db

\* A faulty total: the quantities are left out.
TotalAmountOfPrices(cart) == SumSeq([i \in 1..Len(cart) |-> ItemPrice(cart[i])])

\* total_amount += item.quantity * item_price, over the rows that were read
TotalAmount(cart) == SumSeq([i \in 1..Len(cart) |-> cart[i].quantity * ItemPrice(cart[i])])

\* A faulty item: one unit, whatever the quantity of the row.
OrderItemOfUnit(item, oid) ==
  [order_id |-> oid, book_id |-> item.book_id, quantity |-> 1,
   price_at_purchase |-> ItemPrice(item)]

\* models.OrderItem(book_id, quantity, price_at_purchase) of a row, in order oid
OrderItemOf(item, oid) ==
  [order_id |-> oid, book_id |-> item.book_id, quantity |-> item.quantity,
   price_at_purchase |-> ItemPrice(item)]

\* POST /orders, from the SELECT of the caller's cart to the Order built in
\* the session (nothing is written yet).
create_order(r, u) ==
  /\ Free(r)
  /\ get_current_user(u)
  /\ LET n == New("create_order", u, 0, 0)
         cart == [i \in 1..Cardinality(CartItemsOf(u)) |-> Joined(SortById(CartItemsOf(u))[i])]
     IN  IF EmptyCart(cart) THEN req' = [req EXCEPT ![r] = Done(n, 400, {})]
         ELSE IF \E i \in 1..Len(cart) : BookMissing(cart[i])
           THEN req' = [req EXCEPT ![r] = Done(n, 500, {})]
         ELSE /\ Len(orders) + Cardinality({w \in DOMAIN req : req[w].pc = "order_commit"}) < MaxOrders
              /\ req' = [req EXCEPT ![r] = [n EXCEPT !.pc = "order_commit", !.cart = cart]]
  /\ UNCHANGED db

\* POST /orders, db.add(new_order) and the first db.commit(): the order and
\* its items are inserted together.
create_order_commit(r) ==
  /\ req[r].pc = "order_commit"
  /\ LET q == req[r]
         oid == Len(orders) + 1
     IN  /\ orders' = Append(orders, [user_id |-> q.user,
                                      total_amount |-> Round2(TotalAmount(q.cart)),
                                      status |-> "pending"])
         /\ order_items' = order_items \o [i \in 1..Len(q.cart) |-> OrderItemOf(q.cart[i], oid)]
         /\ from_cart' = from_cart \o [i \in 1..Len(q.cart) |-> q.cart[i].id]
         /\ req' = [req EXCEPT ![r] = [q EXCEPT !.pc = "order_clear", !.order = oid]]
  /\ UNCHANGED <<users, user_seq, books, book_seq, cart_items, cart_seq, favorites, fav_seq>>

\* POST /orders, the bulk DELETE of the caller's cart rows and the second
\* db.commit().
create_order_clear(r) ==
  /\ req[r].pc = "order_clear"
  /\ cart_items' = {c \in cart_items : c.user_id # req[r].user}
  /\ req' = [req EXCEPT ![r] = [req[r] EXCEPT !.pc = "order_response", !.cart = <<>>]]
  /\ UNCHANGED <<users, books, book_seq, cart_seq, orders, order_items, from_cart, user_seq, favorites, fav_seq>>

\* The items of an order that a response lists: those whose book is found.
ListedItems(oid) ==
  {i \in 1..Len(order_items) :
     order_items[i].order_id = oid /\ order_items[i].book_id \in DOMAIN books}

\* POST /orders, db.refresh(new_order) and the response.
create_order_response(r) ==
  /\ req[r].pc = "order_response"
  /\ req' = [req EXCEPT ![r] = Done(req[r], 201, ListedItems(req[r].order))]
  /\ UNCHANGED db

\* -------------------------------------------------------------- orders
\* A faulty filter: the owner is not compared.
OwnedByAnyone(o, u) == TRUE

\* filter(Order.user_id == current_user.id)
OwnedBy(o, u) == o.user_id = u

\* GET /orders
get_user_orders(r, u) ==
  /\ Free(r)
  /\ get_current_user(u)
  /\ req' = [req EXCEPT ![r] = Done(New("get_user_orders", u, 0, 0), 200,
               {[id |-> i, user_id |-> orders[i].user_id] :
                  i \in {j \in 1..Len(orders) : OwnedBy(orders[j], u)}})]
  /\ UNCHANGED db

\* GET /orders/{order_id}
get_order_details(r, u, oid) ==
  /\ Free(r)
  /\ get_current_user(u)
  /\ LET n == New("get_order_details", u, oid, 0) IN
     req' = [req EXCEPT ![r] =
       IF oid \in 1..Len(orders) /\ OwnedBy(orders[oid], u)
       THEN Done(n, 200, {[id |-> oid, user_id |-> orders[oid].user_id]})
       ELSE Done(n, 404, {})]
  /\ UNCHANGED db

\* ------------------------------------------------------------- catalog
\* POST /books/
create_book(r, u, p) ==
  /\ Free(r)
  /\ get_current_user(u)
  /\ LET n == New("create_book", u, 0, p) IN
       IF ~get_current_admin_user(u)
       THEN req' = [req EXCEPT ![r] = Done(n, 403, {})] /\ UNCHANGED <<books, book_seq>>
       ELSE IF ~BookCreate(p)
       THEN req' = [req EXCEPT ![r] = Done(n, 422, {})] /\ UNCHANGED <<books, book_seq>>
       ELSE /\ book_seq < MaxBookId
            /\ book_seq' = book_seq + 1
            /\ books' = books @@ ((book_seq + 1) :> p)
            /\ req' = [req EXCEPT ![r] = Done(n, 201, {book_seq + 1})]
  /\ UNCHANGED <<users, cart_items, cart_seq, orders, order_items, from_cart, user_seq, favorites, fav_seq>>

\* PUT /books/{book_id} (full = TRUE, body BookCreate) and PATCH
\* /books/{book_id} (full = FALSE, body BookUpdate), up to the SELECT of the
\* book.
update_book(r, u, b, p, full) ==
  /\ Free(r)
  /\ get_current_user(u)
  /\ LET n == New(IF full THEN "update_book_full" ELSE "update_book_partial", u, b, p) IN
     req' = [req EXCEPT ![r] =
       IF ~get_current_admin_user(u) THEN Done(n, 403, {})
       ELSE IF ~(IF full THEN BookCreate(p) ELSE BookUpdate(p)) THEN Done(n, 422, {})
       ELSE IF b \notin DOMAIN books THEN Done(n, 404, {})
       ELSE [n EXCEPT !.pc = "book_commit"]]
  /\ UNCHANGED db

\* PUT and PATCH /books/{book_id}, setattr and db.commit(): the UPDATE of the
\* book that was read.
update_book_commit(r) ==
  /\ req[r].pc = "book_commit"
  /\ LET q == req[r] IN
       IF q.arg \in DOMAIN books
       THEN /\ books' = [books EXCEPT ![q.arg] = q.qty]
            /\ req' = [req EXCEPT ![r] = Done(q, 200, {q.arg})]
       ELSE /\ req' = [req EXCEPT ![r] = Done(q, 500, {})]
            /\ UNCHANGED books
  /\ UNCHANGED <<users, book_seq, cart_items, cart_seq, orders, order_items, from_cart, user_seq, favorites, fav_seq>>

\* DELETE /books/{book_id}, up to the SELECT of the book.
delete_book(r, u, b) ==
  /\ Free(r)
  /\ get_current_user(u)
  /\ LET n == New("delete_book", u, b, 0) IN
     req' = [req EXCEPT ![r] =
       IF ~get_current_admin_user(u) THEN Done(n, 403, {})
       ELSE IF b \notin DOMAIN books THEN Done(n, 404, {})
       ELSE [n EXCEPT !.pc = "book_delete"]]
  /\ UNCHANGED db

\* DELETE /books/{book_id}, db.delete(db_book) and db.commit(): the
\* relationships of Book carry no delete cascade, so the flush sets the
\* book_id of the rows that reference the book to NULL and deletes the book.
delete_book_commit(r) ==
  /\ req[r].pc = "book_delete"
  /\ LET b == req[r].arg IN
       /\ books' = [x \in DOMAIN books \ {b} |-> books[x]]
       /\ cart_items' = {IF c.book_id = b THEN [c EXCEPT !.book_id = NULL] ELSE c : c \in cart_items}
       /\ order_items' = [i \in 1..Len(order_items) |->
                            IF order_items[i].book_id = b
                            THEN [order_items[i] EXCEPT !.book_id = NULL]
                            ELSE order_items[i]]
       /\ favorites' = {IF f.book_id = b THEN [f EXCEPT !.book_id = NULL] ELSE f : f \in favorites}
  /\ req' = [req EXCEPT ![r] = Done(req[r], 204, {})]
  /\ UNCHANGED <<users, book_seq, cart_seq, orders, from_cart, user_seq, fav_seq>>

\* --------------------------------------------------------------- users
\* filter((User.username == username) | (User.email == email))
UsersWith(name, email) ==
  {x \in DOMAIN users : users[x].username = name \/ users[x].email = email}

\* POST /register, up to the SELECT of a user with the username or the e-mail.
\* The route has no authentication, and the body's is_admin is taken as sent.
register_user(r, name, email, admin) ==
  /\ Free(r)
  /\ LET n == [New("register_user", 0, name, email) EXCEPT !.flag = admin] IN
       IF UsersWith(name, email) # {}
       THEN req' = [req EXCEPT ![r] = Done(n, 400, {})]
       ELSE /\ user_seq + Cardinality({w \in DOMAIN req : req[w].pc = "register_commit"}) < MaxUserId
            /\ req' = [req EXCEPT ![r] = [n EXCEPT !.pc = "register_commit"]]
  /\ UNCHANGED db

\* POST /register, db.add(db_user) and db.commit(): the INSERT.  The columns
\* username and email are unique, so an INSERT that repeats one raises
\* IntegrityError, which no handler catches.
register_user_commit(r) ==
  /\ req[r].pc = "register_commit"
  /\ LET q == req[r] IN
       IF UsersWith(q.arg, q.qty) # {}
       THEN /\ req' = [req EXCEPT ![r] = Done(q, 500, {})]
            /\ UNCHANGED <<users, user_seq>>
       ELSE /\ user_seq' = user_seq + 1
            /\ users' = users @@ ((user_seq + 1) :>
                          [username |-> q.arg, email |-> q.qty, is_admin |-> q.flag])
            /\ req' = [req EXCEPT ![r] = Done(q, 201, {user_seq + 1})]
  /\ UNCHANGED <<books, book_seq, cart_items, cart_seq, orders, order_items, from_cart,
                 favorites, fav_seq>>

\* POST /login: the user of that username, and the check of the password
\* (right or wrong, as the client sends it); the answer carries a token that
\* names the user.  Nothing is written.
login_for_access_token(r, name, right) ==
  /\ Free(r)
  /\ LET n == [New("login_for_access_token", 0, name, 0) EXCEPT !.flag = right]
         found == {x \in DOMAIN users : users[x].username = name}
     IN  req' = [req EXCEPT ![r] =
           IF found = {} \/ ~right THEN Done(n, 401, {}) ELSE Done(n, 200, found)]
  /\ UNCHANGED db

\* PUT /users/{user_id}, up to the SELECT of the user.  The body is a UserBase;
\* the target's id travels in the field rowid.
update_user(r, u, target, name, email, admin) ==
  /\ Free(r)
  /\ get_current_user(u)
  /\ LET n == [New("update_user", u, name, email) EXCEPT !.flag = admin, !.rowid = target] IN
     req' = [req EXCEPT ![r] =
       IF ~get_current_admin_user(u) THEN Done(n, 403, {})
       ELSE IF target \notin DOMAIN users THEN Done(n, 404, {})
       ELSE [n EXCEPT !.pc = "user_commit"]]
  /\ UNCHANGED db

\* PUT /users/{user_id}, setattr and db.commit(): the UPDATE of the user that
\* was read.
update_user_commit(r) ==
  /\ req[r].pc = "user_commit"
  /\ LET q == req[r] IN
       IF q.rowid \notin DOMAIN users \/ UsersWith(q.arg, q.qty) \ {q.rowid} # {}
       THEN /\ req' = [req EXCEPT ![r] = Done(q, 500, {})]
            /\ UNCHANGED users
       ELSE /\ users' = [users EXCEPT ![q.rowid] =
                           [username |-> q.arg, email |-> q.qty, is_admin |-> q.flag]]
            /\ req' = [req EXCEPT ![r] = Done(q, 200, {q.rowid})]
  /\ UNCHANGED <<user_seq, books, book_seq, cart_items, cart_seq, orders, order_items,
                 from_cart, favorites, fav_seq>>

\* DELETE /users/{user_id}, up to the SELECT of the user.
delete_user(r, u, target) ==
  /\ Free(r)
  /\ get_current_user(u)
  /\ LET n == [New("delete_user", u, 0, 0) EXCEPT !.rowid = target] IN
     req' = [req EXCEPT ![r] =
       IF ~get_current_admin_user(u) THEN Done(n, 403, {})
       ELSE IF target \notin DOMAIN users THEN Done(n, 404, {})
       ELSE [n EXCEPT !.pc = "user_delete"]]
  /\ UNCHANGED db

\* DELETE /users/{user_id}, db.delete(db_user) and db.commit(): the
\* relationships of User carry no delete cascade, so the flush sets the
\* user_id of the rows that reference the user to NULL and deletes the user.
delete_user_commit(r) ==
  /\ req[r].pc = "user_delete"
  /\ LET t == req[r].rowid IN
       /\ users' = [x \in DOMAIN users \ {t} |-> users[x]]
       /\ cart_items' = {IF c.user_id = t THEN [c EXCEPT !.user_id = NULL] ELSE c : c \in cart_items}
       /\ orders' = [i \in 1..Len(orders) |->
                       IF orders[i].user_id = t
                       THEN [orders[i] EXCEPT !.user_id = NULL]
                       ELSE orders[i]]
       /\ favorites' = {IF f.user_id = t THEN [f EXCEPT !.user_id = NULL] ELSE f : f \in favorites}
  /\ req' = [req EXCEPT ![r] = Done(req[r], 204, {})]
  /\ UNCHANGED <<user_seq, books, book_seq, cart_seq, order_items, from_cart, fav_seq>>

\* ----------------------------------------------------------- favorites
\* filter(Favorite.user_id == u, Favorite.book_id == b)
FavoritesFor(u, b) == {f \in favorites : f.user_id = u /\ f.book_id = b}

\* POST /favorites, up to the two SELECTs: the book, and the caller's favorite
\* of it.
add_book_to_favorites(r, u, b) ==
  /\ Free(r)
  /\ get_current_user(u)
  /\ LET n == New("add_book_to_favorites", u, b, 0) IN
       IF b \notin DOMAIN books THEN req' = [req EXCEPT ![r] = Done(n, 404, {})]
       ELSE IF FavoritesFor(u, b) # {} THEN req' = [req EXCEPT ![r] = Done(n, 409, {})]
       ELSE /\ fav_seq + Cardinality({w \in DOMAIN req : req[w].pc = "favorite_commit"}) < MaxFavId
            /\ req' = [req EXCEPT ![r] = [n EXCEPT !.pc = "favorite_commit"]]
  /\ UNCHANGED db

\* POST /favorites, db.add(db_favorite) and db.commit(): the INSERT.  The table
\* has no unique constraint on (user_id, book_id).
add_book_to_favorites_commit(r) ==
  /\ req[r].pc = "favorite_commit"
  /\ fav_seq' = fav_seq + 1
  /\ favorites' = favorites \cup
       {[id |-> fav_seq + 1, user_id |-> req[r].user, book_id |-> req[r].arg]}
  /\ req' = [req EXCEPT ![r] = Done(req[r], 201, {fav_seq + 1})]
  /\ UNCHANGED <<users, user_seq, books, book_seq, cart_items, cart_seq, orders, order_items,
                 from_cart>>

\* GET /favorites: the caller's favorites whose book is found.
get_user_favorites(r, u) ==
  /\ Free(r)
  /\ get_current_user(u)
  /\ req' = [req EXCEPT ![r] = Done(New("get_user_favorites", u, 0, 0), 200,
               {f.id : f \in {g \in favorites : g.user_id = u /\ g.book_id \in DOMAIN books}})]
  /\ UNCHANGED db

\* DELETE /favorites/{book_id}, up to the SELECT of the caller's favorite.
remove_book_from_favorites(r, u, b) ==
  /\ Free(r)
  /\ get_current_user(u)
  /\ LET n == New("remove_book_from_favorites", u, b, 0)
         row == First(FavoritesFor(u, b))
     IN  req' = [req EXCEPT ![r] =
           IF row = NULL THEN Done(n, 404, {})
           ELSE [n EXCEPT !.pc = "favorite_delete", !.rowid = row]]
  /\ UNCHANGED db

\* DELETE /favorites/{book_id}, db.delete(db_favorite) and db.commit().
remove_book_from_favorites_commit(r) ==
  /\ req[r].pc = "favorite_delete"
  /\ favorites' = {f \in favorites : f.id # req[r].rowid}
  /\ req' = [req EXCEPT ![r] = Done(req[r], 204, {})]
  /\ UNCHANGED <<users, user_seq, books, book_seq, cart_items, cart_seq, orders, order_items,
                 from_cart, fav_seq>>

\* -------------------------------------------------------- specifications
\* Two registered users, the second an administrator, and a catalog of two
\* books; empty carts, no order.
InitTables ==
  /\ users = (1 :> [username |-> 1, email |-> 1, is_admin |-> FALSE])
             @@ (2 :> [username |-> 2, email |-> 2, is_admin |-> TRUE])
  /\ user_seq = 2
  /\ books = (1 :> 12) @@ (2 :> 24)
  /\ book_seq = 2
  /\ cart_items = {}
  /\ cart_seq = 0
  /\ orders = <<>>
  /\ order_items = <<>>
  /\ from_cart = <<>>
  /\ favorites = {}
  /\ fav_seq = 0

\* The same tables with the customer as the only user: nobody has the admin
\* flag.
InitNoAdmin ==
  /\ users = (1 :> [username |-> 1, email |-> 1, is_admin |-> FALSE])
  /\ user_seq = 1
  /\ books = (1 :> 12) @@ (2 :> 24)
  /\ book_seq = 2
  /\ cart_items = {}
  /\ cart_seq = 0
  /\ orders = <<>>
  /\ order_items = <<>>
  /\ from_cart = <<>>
  /\ favorites = {}
  /\ fav_seq = 0
  /\ req = [r \in {1} |-> NoReq]

\* One worker: a request is served to its end before the next one starts.
InitSerial == InitTables /\ req = [r \in {1} |-> NoReq]

\* Two workers, whose statements interleave.
InitWorkers == InitTables /\ req = [r \in {1, 2} |-> NoReq]

\* The cart, one request at a time.
NextCart ==
  \/ \E u \in DOMAIN users, b \in BookIdInputs, q \in QtyInputs : add_item_to_cart(1, u, b, q)
  \/ add_item_to_cart_commit(1)
  \/ \E u \in DOMAIN users, b \in BookIdInputs, q \in QtyInputs : update_cart_item_quantity(1, u, b, q)
  \/ update_cart_item_quantity_commit(1)
  \/ \E u \in DOMAIN users, b \in BookIdInputs : remove_item_from_cart(1, u, b)
  \/ remove_item_from_cart_commit(1)
  \/ \E u \in DOMAIN users : clear_cart(1, u)

SpecCart == InitSerial /\ [][NextCart]_vars

\* Cart, checkout and catalog, one request at a time: a customer shops while
\* the administrator changes prices and deletes books.
NextCheckout ==
  \/ \E b \in BookIdInputs, q \in QtyInputs \ {0} : add_item_to_cart(1, 1, b, q)
  \/ add_item_to_cart_commit(1)
  \/ create_order(1, 1)
  \/ create_order_commit(1)
  \/ create_order_clear(1)
  \/ create_order_response(1)
  \/ \E b \in BookIdInputs, p \in PriceInputs, full \in BOOLEAN : update_book(1, 2, b, p, full)
  \/ update_book_commit(1)
  \/ \E b \in BookIdInputs : delete_book(1, 2, b)
  \/ delete_book_commit(1)

SpecCheckout == InitSerial /\ [][NextCheckout]_vars

\* Cart, checkout and order history of two users, one request at a time.
NextHistory ==
  \/ \E u \in DOMAIN users, b \in BookIdInputs : add_item_to_cart(1, u, b, 1)
  \/ add_item_to_cart_commit(1)
  \/ \E u \in DOMAIN users : create_order(1, u)
  \/ create_order_commit(1)
  \/ create_order_clear(1)
  \/ create_order_response(1)
  \/ \E u \in DOMAIN users : get_user_orders(1, u)
  \/ \E u \in DOMAIN users, o \in OrderIdInputs : get_order_details(1, u, o)

SpecHistory == InitSerial /\ [][NextHistory]_vars

\* The requests of one customer on one book, served by two workers.
Next ==
  \/ \E r \in DOMAIN req, q \in QtyInputs \ {0} : add_item_to_cart(r, 1, 1, q)
  \/ \E r \in DOMAIN req : add_item_to_cart_commit(r)
  \/ \E r \in DOMAIN req : create_order(r, 1)
  \/ \E r \in DOMAIN req : create_order_commit(r)
  \/ \E r \in DOMAIN req : create_order_clear(r)
  \/ \E r \in DOMAIN req : create_order_response(r)

Spec == InitWorkers /\ [][Next]_vars

\* Registration, served by two workers.
NextAccounts ==
  \/ \E r \in DOMAIN req, name \in NameInputs, email \in EmailInputs, admin \in BOOLEAN :
       register_user(r, name, email, admin)
  \/ \E r \in DOMAIN req : register_user_commit(r)

SpecAccounts == InitWorkers /\ [][NextAccounts]_vars

\* The favorites of two users, served by two workers.
NextFavorites ==
  \/ \E r \in DOMAIN req, u \in DOMAIN users, b \in BookIdInputs : add_book_to_favorites(r, u, b)
  \/ \E r \in DOMAIN req : add_book_to_favorites_commit(r)
  \/ \E r \in DOMAIN req, u \in DOMAIN users : get_user_favorites(r, u)
  \/ \E r \in DOMAIN req, u \in DOMAIN users, b \in BookIdInputs : remove_book_from_favorites(r, u, b)
  \/ \E r \in DOMAIN req : remove_book_from_favorites_commit(r)

SpecFavorites == InitWorkers /\ [][NextFavorites]_vars

\* The catalog, one request at a time, asked by a customer and by the
\* administrator.
NextCatalog ==
  \/ \E u \in DOMAIN users, p \in CatalogPriceInputs : create_book(1, u, p)
  \/ \E u \in DOMAIN users, b \in 1..MaxBookId, p \in CatalogPriceInputs, full \in BOOLEAN :
       update_book(1, u, b, p, full)
  \/ update_book_commit(1)
  \/ \E u \in DOMAIN users, b \in 1..MaxBookId : delete_book(1, u, b)
  \/ delete_book_commit(1)

SpecCatalog == InitSerial /\ [][NextCatalog]_vars

\* The carts of two users and their checkouts, one request at a time; the
\* first user also updates, removes and clears.
NextShop ==
  \/ \E u \in DOMAIN users, b \in BookIdInputs, q \in QtyInputs : add_item_to_cart(1, u, b, q)
  \/ add_item_to_cart_commit(1)
  \/ \E b \in BookIdInputs, q \in QtyInputs : update_cart_item_quantity(1, 1, b, q)
  \/ update_cart_item_quantity_commit(1)
  \/ \E b \in BookIdInputs : remove_item_from_cart(1, 1, b)
  \/ remove_item_from_cart_commit(1)
  \/ clear_cart(1, 1)
  \/ \E u \in DOMAIN users : create_order(1, u)
  \/ create_order_commit(1)
  \/ create_order_clear(1)
  \/ create_order_response(1)

SpecShop == InitSerial /\ [][NextShop]_vars

\* A customer fills and reads the cart while the administrator changes prices
\* and deletes books, one request at a time.
NextCartView ==
  \/ \E b \in BookIdInputs, q \in QtyInputs \ {0} : add_item_to_cart(1, 1, b, q)
  \/ add_item_to_cart_commit(1)
  \/ get_cart_content(1, 1)
  \/ \E b \in BookIdInputs, p \in PriceInputs, full \in BOOLEAN : update_book(1, 2, b, p, full)
  \/ update_book_commit(1)
  \/ \E b \in BookIdInputs : delete_book(1, 2, b)
  \/ delete_book_commit(1)

SpecCartView == InitSerial /\ [][NextCartView]_vars

\* A customer orders while the administrator deletes books and updates and
\* deletes the customer's account (and asks for an account that does not
\* exist), one request at a time.
NextRecords ==
  \/ \E b \in BookIdInputs : add_item_to_cart(1, 1, b, 1)
  \/ add_item_to_cart_commit(1)
  \/ create_order(1, 1)
  \/ create_order_commit(1)
  \/ create_order_clear(1)
  \/ create_order_response(1)
  \/ \E b \in BookIdInputs : delete_book(1, 2, b)
  \/ delete_book_commit(1)
  \/ \E t \in UserIdInputs \ {2}, name \in NameInputs \ {3}, admin \in BOOLEAN :
       update_user(1, 2, t, name, 1, admin)
  \/ update_user_commit(1)
  \/ \E t \in UserIdInputs \ {2} : delete_user(1, 2, t)
  \/ delete_user_commit(1)

SpecRecords == InitSerial /\ [][NextRecords]_vars

\* What anyone can send when no user is an administrator: registration and
\* login without a token, and with the token of a registered user the cart,
\* the checkout, the favorites and the book routes; one request at a time.
NextPublic ==
  \/ \E name \in NameInputs \ {3}, email \in EmailInputs \ {3}, admin \in BOOLEAN :
       register_user(1, name, email, admin)
  \/ register_user_commit(1)
  \/ \E name \in NameInputs \ {3}, right \in BOOLEAN : login_for_access_token(1, name, right)
  \/ \E u \in DOMAIN users : add_item_to_cart(1, u, 1, 1)
  \/ add_item_to_cart_commit(1)
  \/ \E u \in DOMAIN users : create_order(1, u)
  \/ create_order_commit(1)
  \/ create_order_clear(1)
  \/ create_order_response(1)
  \/ \E u \in DOMAIN users : add_book_to_favorites(1, u, 1)
  \/ add_book_to_favorites_commit(1)
  \/ \E u \in DOMAIN users : create_book(1, u, 12)
  \/ \E u \in DOMAIN users, full \in BOOLEAN : update_book(1, u, 1, 24, full)
  \/ update_book_commit(1)
  \/ \E u \in DOMAIN users : delete_book(1, u, 2)
  \/ delete_book_commit(1)

SpecPublic == InitNoAdmin /\ [][NextPublic]_vars

\* ------------------------------------------------------------ properties
\* Worker r ends a request in this step.
Answers(r) == req'[r] # req[r] /\ req'[r].pc = "done"

\* Worker r takes a new request in this step.
Begins(r) == Free(r) /\ req'[r] # req[r]

\* quantity * price_at_purchase of the items of order o (0 for the others).
LineTotals(o) ==
  [i \in 1..Len(order_items) |->
     IF order_items[i].order_id = o
     THEN order_items[i].quantity * order_items[i].price_at_purchase
     ELSE 0]

ItemsOfOrder(o) == {i \in 1..Len(order_items) : order_items[i].order_id = o}

\* C1 (Spec): in no state that another request can read is an order persisted
\* while a cart row it was built from is still in the cart.
C1_CheckoutAtomic ==
  \A i \in 1..Len(order_items) : ~HasCartRow(from_cart[i])

\* C2 (SpecCheckout): in every state the total_amount of every order is the
\* sum of quantity * price_at_purchase over its items, rounded to 2 decimals.
C2_TotalIsSumOfItems ==
  \A o \in 1..Len(orders) : orders[o].total_amount = Round2(SumSeq(LineTotals(o)))

\* An order of two items, one of a book deleted since and one of a book whose
\* price has changed since, whose total differs from the unrounded sum.
C2_Witness ==
  \E o \in 1..Len(orders) :
    /\ Cardinality(ItemsOfOrder(o)) = 2
    /\ \E i \in ItemsOfOrder(o) : order_items[i].book_id = NULL
    /\ \E i \in ItemsOfOrder(o) :
         /\ order_items[i].book_id \in DOMAIN books
         /\ books[order_items[i].book_id] # order_items[i].price_at_purchase
    /\ orders[o].total_amount # SumSeq(LineTotals(o))

\* C3 (SpecCheckout): an order item is inserted with the catalog price its
\* book has at that moment, and no later step (in particular no PUT or PATCH
\* of the book) changes the price_at_purchase of an item or the total_amount
\* of an order.
C3_PriceFrozen ==
  [][/\ \A i \in 1..Len(order_items') :
          i > Len(order_items) =>
            /\ order_items'[i].book_id \in DOMAIN books
            /\ order_items'[i].price_at_purchase = books[order_items'[i].book_id]
     /\ \A i \in 1..Len(order_items) :
          /\ i <= Len(order_items')
          /\ order_items'[i].price_at_purchase = order_items[i].price_at_purchase
     /\ \A o \in 1..Len(orders) :
          /\ o <= Len(orders')
          /\ orders'[o].total_amount = orders[o].total_amount]_vars

\* A price update of a book has just been answered 200, and an item ordered
\* before it still carries the former price.
C3_Witness ==
  \E r \in DOMAIN req, i \in 1..Len(order_items) :
    /\ req[r].op \in {"update_book_full", "update_book_partial"}
    /\ req[r].status = 200
    /\ order_items[i].book_id = req[r].arg
    /\ books[req[r].arg] = req[r].qty
    /\ order_items[i].price_at_purchase # req[r].qty

\* C4 (SpecCart): add(user, book, qty) on a cart that holds a row of (user,
\* book) with quantity q leaves exactly one row of (user, book), with quantity
\* q + qty; on a cart without such a row it leaves exactly one row, with
\* quantity qty.
C4_AddMerges ==
  [][\A r \in DOMAIN req :
       (req[r].pc = "add_commit" /\ req'[r] # req[r]) =>
         LET u == req[r].user
             b == req[r].arg
             pre == CartItemsFor(u, b)
             post == {c \in cart_items' : c.user_id = u /\ c.book_id = b}
         IN  /\ req'[r].status = 201
             /\ Cardinality(post) = 1
             /\ pre = {} => \A d \in post : d.quantity = req[r].qty
             /\ \A c \in pre : \A d \in post : d.quantity = c.quantity + req[r].qty]_vars

\* An add has been answered 201 and its row holds more than the quantity
\* added: the quantities were merged.
C4_Witness ==
  \E r \in DOMAIN req, c \in cart_items :
    /\ req[r].op = "add_item_to_cart"
    /\ req[r].status = 201
    /\ c.id \in req[r].body
    /\ c.user_id = req[r].user /\ c.book_id = req[r].arg
    /\ c.quantity > req[r].qty

\* C5 (Spec): in every state the cart holds at most one row per (user, book).
C5_OneRowPerUserAndBook ==
  \A c \in cart_items, d \in cart_items :
    (c.user_id = d.user_id /\ c.book_id = d.book_id /\ c.book_id # NULL) => c = d

\* C6 (SpecCart): an update with quantity <= 0 of a book that is in the
\* caller's cart deletes the row and is answered as a removal, not an error.
C6_NonPositiveQuantityRemoves ==
  [][\A r \in DOMAIN req :
       (/\ Answers(r)
        /\ req'[r].op = "update_cart_item_quantity"
        /\ req'[r].qty <= 0
        /\ CartItemsFor(req'[r].user, req'[r].arg) # {}) =>
         /\ req'[r].status < 400
         /\ {c \in cart_items' : c.user_id = req'[r].user /\ c.book_id = req'[r].arg} = {}]_vars

\* C7 (SpecHistory): create_order of a user whose cart has no row is answered
\* 400 at once and changes neither the orders nor the order items.
C7_EmptyCartRefused ==
  [][\A r \in DOMAIN req :
       (Begins(r) /\ req'[r].op = "create_order" /\ CartItemsOf(req'[r].user) = {}) =>
         /\ req'[r].pc = "done"
         /\ req'[r].status = 400
         /\ orders' = orders
         /\ order_items' = order_items]_vars

\* A checkout has been answered 400, the caller's cart is empty, and an order
\* exists already.
C7_Witness ==
  \E r \in DOMAIN req :
    /\ req[r].op = "create_order"
    /\ req[r].status = 400
    /\ CartItemsOf(req[r].user) = {}
    /\ Len(orders) > 0

\* C8 (Spec): the contents of one cart row become items of at most one order.
C8_CartOrderedOnce ==
  \A i \in 1..Len(order_items), j \in 1..Len(order_items) :
    from_cart[i] = from_cart[j] => order_items[i].order_id = order_items[j].order_id

\* C9 (SpecHistory): get_order_details of an order that is not the caller's is
\* answered 404 with no body, as for an id that names no order, and
\* get_user_orders returns only orders whose user_id is the caller's.
C9_OrdersFilteredByOwner ==
  [][\A r \in DOMAIN req :
       Answers(r) =>
         /\ (/\ req'[r].op = "get_order_details"
             /\ \/ req'[r].arg \notin 1..Len(orders)
                \/ orders[req'[r].arg].user_id # req'[r].user) =>
              (req'[r].status = 404 /\ req'[r].body = {})
         /\ req'[r].op = "get_user_orders" =>
              \A x \in req'[r].body :
                /\ x.user_id = req'[r].user
                /\ x.id \in 1..Len(orders)
                /\ orders[x.id].user_id = req'[r].user]_vars

\* A user has asked for an existing order of another user and been answered
\* 404.
C9_Witness ==
  \E r \in DOMAIN req :
    /\ req[r].op = "get_order_details"
    /\ req[r].status = 404
    /\ req[r].arg \in 1..Len(orders)
    /\ orders[req[r].arg].user_id # req[r].user

\* C10 (SpecCheckout): create_order of a cart with a row whose book cannot be
\* resolved is answered 500 at once: no order and no order item is persisted
\* and the cart rows are unchanged.
C10_UnresolvedBookAborts ==
  [][\A r \in DOMAIN req :
       (/\ Begins(r)
        /\ req'[r].op = "create_order"
        /\ \E c \in CartItemsOf(req'[r].user) : c.book_id \notin DOMAIN books) =>
         /\ req'[r].pc = "done"
         /\ req'[r].status = 500
         /\ orders' = orders
         /\ order_items' = order_items
         /\ cart_items' = cart_items]_vars

\* A checkout has been answered 500 and the caller's cart holds a row whose
\* book was deleted, beside a row whose book exists.
C10_Witness ==
  \E r \in DOMAIN req :
    /\ req[r].op = "create_order"
    /\ req[r].status = 500
    /\ \E c \in CartItemsOf(req[r].user) : c.book_id \notin DOMAIN books
    /\ \E c \in CartItemsOf(req[r].user) : c.book_id \in DOMAIN books

\* No two users share a username or an e-mail address.
UsernamesAndEmailsUnique ==
  \A a \in DOMAIN users, b \in DOMAIN users :
    a # b => (users[a].username # users[b].username /\ users[a].email # users[b].email)

\* C11 (SpecAccounts): a registration with a username or an e-mail of an
\* existing user is answered 409 Conflict and creates no user, and in every
\* state usernames and e-mails are unique.
C11_DuplicateRegistrationConflict ==
  [][/\ UsernamesAndEmailsUnique
     /\ UsernamesAndEmailsUnique'
     /\ \A r \in DOMAIN req :
          (/\ Begins(r)
           /\ req'[r].op = "register_user"
           /\ UsersWith(req'[r].arg, req'[r].qty) # {}) =>
            /\ req'[r].pc = "done"
            /\ req'[r].status = 409
            /\ users' = users]_vars

\* C12 (SpecFavorites): in every state there is at most one favorite per
\* (user, book), and an add of a book that is already a favorite of the caller
\* is answered 409 and leaves the favorites unchanged.
C12_OneFavoritePerUserAndBook ==
  [][/\ \A f \in favorites', g \in favorites' :
          (f.user_id = g.user_id /\ f.book_id = g.book_id /\ f.book_id # NULL) => f = g
     /\ \A r \in DOMAIN req :
          (/\ Begins(r)
           /\ req'[r].op = "add_book_to_favorites"
           /\ FavoritesFor(req'[r].user, req'[r].arg) # {}) =>
            /\ req'[r].pc = "done"
            /\ req'[r].status = 409
            /\ favorites' = favorites]_vars

\* C13 (SpecCatalog): in every state every book of the catalog has a
\* price > 0.
C13_PricesPositive ==
  \A b \in DOMAIN books : books[b] > 0

CatalogOps == {"create_book", "update_book_full", "update_book_partial", "delete_book"}

\* C17 (SpecCatalog): a create, full update, partial update or delete of a book
\* asked by a caller without the admin flag is answered 403 and leaves the
\* catalog unchanged, and every step that changes the catalog belongs to a
\* catalog request of a caller with the admin flag.
C17_CatalogMutationAdminOnly ==
  [][/\ \A r \in DOMAIN req :
          (/\ Begins(r)
           /\ req'[r].op \in CatalogOps
           /\ ~users[req'[r].user].is_admin) =>
            /\ req'[r].pc = "done"
            /\ req'[r].status = 403
            /\ books' = books
            /\ book_seq' = book_seq
     /\ (books' # books \/ book_seq' # book_seq) =>
          \E r \in DOMAIN req :
            /\ req'[r] # req[r]
            /\ req'[r].op \in CatalogOps
            /\ users[req'[r].user].is_admin]_vars

\* A customer's request to delete a book that exists has been answered 403,
\* in a catalog that the administrator has extended before.
C17_Witness ==
  \E r \in DOMAIN req :
    /\ req[r].op = "delete_book"
    /\ req[r].status = 403
    /\ ~users[req[r].user].is_admin
    /\ req[r].arg \in DOMAIN books
    /\ book_seq > 2

\* C14 (SpecShop): in every state every cart row has a quantity > 0.
C14_QuantitiesPositive ==
  \A c \in cart_items : c.quantity > 0

\* An update has just set the quantity of a row that an add had created with
\* another quantity, after an order was placed.
C14_Witness ==
  \E r \in DOMAIN req, c \in cart_items :
    /\ req[r].op = "update_cart_item_quantity"
    /\ req[r].status = 200
    /\ c.id \in req[r].body
    /\ c.quantity = req[r].qty
    /\ Len(orders) > 0

\* The cart rows of user u in the order of their primary key, each with the
\* current price of its book (NULL when the book is not found).
RowsOf(u) == [i \in 1..Cardinality(CartItemsOf(u)) |-> Joined(SortById(CartItemsOf(u))[i])]

\* C15 (SpecCartView): the answer of get_cart_content lists every cart row of
\* the caller, its total quantity is the sum of the quantities of all these
\* rows, and its total amount is the sum of quantity * current price of the
\* book over all these rows.
C15_CartContentComplete ==
  [][\A r \in DOMAIN req :
       (Answers(r) /\ req'[r].op = "get_cart_content") =>
         \A x \in req'[r].body :
           /\ x.items = {c.id : c \in CartItemsOf(req'[r].user)}
           /\ x.total_quantity =
                SumSeq([i \in 1..Len(RowsOf(req'[r].user)) |-> RowsOf(req'[r].user)[i].quantity])
           /\ x.total_amount =
                Round2(SumSeq([i \in 1..Len(RowsOf(req'[r].user)) |->
                  RowsOf(req'[r].user)[i].quantity * RowsOf(req'[r].user)[i].price]))]_vars

\* C16 (SpecRecords): no step changes the owner, the total amount or the
\* status of an order that exists, nor the book, the quantity or the price at
\* purchase of an order item that exists.
C16_OrdersImmutable ==
  [][/\ \A o \in 1..Len(orders) :
          /\ o <= Len(orders')
          /\ orders'[o] = orders[o]
     /\ \A i \in 1..Len(order_items) :
          /\ i <= Len(order_items')
          /\ order_items'[i] = order_items[i]]_vars

\* C18 (SpecShop): the commit of a create_order inserts one order of the
\* caller whose items are, one for one, the caller's cart rows (same book, same
\* quantity) and changes no other order, item or cart row; the step that
\* follows empties the caller's cart and changes nothing else; and when the
\* request is answered 201 the caller's cart is empty.
C18_CheckoutMovesCart ==
  [][\A r \in DOMAIN req :
       LET u == req[r].user
           oid == Len(orders) + 1
           new == {i \in 1..Len(order_items') : i > Len(order_items)}
       IN  /\ (req[r].pc = "order_commit" /\ req'[r].pc = "order_clear") =>
                /\ Len(orders') = oid
                /\ orders'[oid].user_id = u
                /\ \A o \in 1..Len(orders) : orders'[o] = orders[o]
                /\ \A i \in 1..Len(order_items) : order_items'[i] = order_items[i]
                /\ \A i \in new : order_items'[i].order_id = oid
                /\ Cardinality(new) = Cardinality(CartItemsOf(u))
                /\ {<<order_items'[i].book_id, order_items'[i].quantity>> : i \in new}
                     = {<<c.book_id, c.quantity>> : c \in CartItemsOf(u)}
                /\ cart_items' = cart_items
           /\ (req[r].pc = "order_clear" /\ req'[r].pc = "order_response") =>
                /\ \A c \in cart_items' : c.user_id # u
                /\ {c \in cart_items' : c.user_id # u} = {c \in cart_items : c.user_id # u}
                /\ orders' = orders
                /\ order_items' = order_items
           /\ (Answers(r) /\ req'[r].op = "create_order" /\ req'[r].status = 201) =>
                /\ \A c \in cart_items' : c.user_id # u
                /\ orders' = orders
                /\ order_items' = order_items]_vars

\* A checkout has been answered 201 with an order that holds an item of
\* quantity 2, the caller's cart is empty and another user's cart is not.
C18_Witness ==
  \E r \in DOMAIN req :
    /\ req[r].op = "create_order"
    /\ req[r].status = 201
    /\ \E i \in 1..Len(order_items) :
         order_items[i].order_id = req[r].order /\ order_items[i].quantity = 2
    /\ CartItemsOf(req[r].user) = {}
    /\ \E c \in cart_items : c.user_id # req[r].user

\* C19 (Spec): every cart row that a checkout deletes is represented in the
\* order it has created, with the row's book and the row's quantity, so that
\* what an add changes after the checkout has read the cart is in the order or
\* stays in the cart.
C19_CheckoutLosesNoItem ==
  [][\A r \in DOMAIN req :
       (req[r].pc = "order_clear" /\ req'[r].pc = "order_response") =>
         \A c \in cart_items \ cart_items' :
           \E i \in 1..Len(order_items) :
             /\ order_items[i].order_id = req[r].order
             /\ from_cart[i] = c.id
             /\ order_items[i].book_id = c.book_id
             /\ order_items[i].quantity = c.quantity]_vars

\* C20 (Spec): an add that is answered 201 on a row that exists raises the
\* quantity stored in the row by the quantity it adds, so that two concurrent
\* adds of q1 and q2 on a row of quantity q leave q + q1 + q2.
C20_NoLostUpdate ==
  [][\A r \in DOMAIN req :
       (/\ req[r].pc = "add_commit"
        /\ req[r].rowid # NULL
        /\ req'[r].pc = "done"
        /\ req'[r].status = 201) =>
         \E c \in cart_items, d \in cart_items' :
           /\ c.id = req[r].rowid
           /\ d.id = req[r].rowid
           /\ d.quantity = c.quantity + req[r].qty]_vars

\* C21 (SpecCheckout): in every state every cart row and every order item
\* references a book of the catalog.
C21_ItemsReferenceBooks ==
  /\ \A c \in cart_items : c.book_id \in DOMAIN books
  /\ \A i \in 1..Len(order_items) : order_items[i].book_id \in DOMAIN books

\* C22 (SpecPublic): from a state where no user has the admin flag, in every
\* state no user has the admin flag and the catalog is the initial one.
C22_NoPrivilegeEscalation ==
  /\ \A u \in DOMAIN users : ~users[u].is_admin
  /\ books = (1 :> 12) @@ (2 :> 24)
  /\ book_seq = 2

====
